---- MODULE Spec2Model ----
(***************************************************************************)
(* A model of gorse's core/data.go: the DataSet built by NewDataSet from a *)
(* raw table (two ForEach passes), its query methods, and the CSV loader   *)
(* that feeds it.  Integers index Go slices from 0; TLA+ sequences from 1, *)
(* so slice element k is sequence element k + 1.                           *)
(***************************************************************************)
EXTENDS FiniteSets, Integers, Sequences

VARIABLES
    Table,              \* DataSet.Table: the raw records, in order
    GlobalMean,         \* DataSet.GlobalMean
    DenseUserIds,       \* DataSet.DenseUserIds
    DenseItemIds,       \* DataSet.DenseItemIds
    DenseUserRatings,   \* DataSet.DenseUserRatings
    DenseItemRatings,   \* DataSet.DenseItemRatings
    UserIdSet,          \* DataSet.UserIdSet
    ItemIdSet,          \* DataSet.ItemIdSet
    pc,                 \* where the program is
    i,                  \* position of the running ForEach / scanner
    ret,                \* what the last query returned
    lines,              \* LoadDataFromCSV: the lines of the file
    argHasHeader,       \* LoadDataFromCSV: hasHeader as the caller passed it
    hasHeader,          \* LoadDataFromCSV: the hasHeader parameter (the loop reassigns it)
    users,              \* LoadDataFromCSV: users
    items,              \* LoadDataFromCSV: items
    ratings             \* LoadDataFromCSV: ratings

dsVars == <<Table, GlobalMean, DenseUserIds, DenseItemIds, DenseUserRatings,
            DenseItemRatings, UserIdSet, ItemIdSet>>
csvVars == <<lines, argHasHeader, hasHeader, users, items, ratings>>
vars == <<Table, GlobalMean, DenseUserIds, DenseItemIds, DenseUserRatings,
          DenseItemRatings, UserIdSet, ItemIdSet, pc, i, ret,
          lines, argHasHeader, hasHeader, users, items, ratings>>

(***************************************************************************)
(* Bounds and input alphabets                                              *)
(***************************************************************************)
MaxRecords == 3
MaxLines == 2
MaxLineLen == 5

UserIds == {7, 3, 5}        \* sparse user ids a raw table may hold
ItemIds == {4, 7}           \* sparse item ids a raw table may hold
Ratings == {1, 2}
QueryIds == UserIds \cup {9} \* arguments of GetUserRatingsSet; no raw table holds 9
Chars == {"1", "a", ","}    \* characters of a CSV line
Sep == ","

Records == [user : UserIds, item : ItemIds, rating : Ratings]
Tables == UNION {[1..n -> Records] : n \in 0..MaxRecords}
Lines == UNION {[1..n -> Chars] : n \in 0..MaxLineLen}
Files == UNION {[1..n -> Lines] : n \in 0..MaxLines}

(***************************************************************************)
(* Arithmetic helpers                                                      *)
(***************************************************************************)
RECURSIVE SumSeq(_)
SumSeq(s) == IF s = <<>> THEN 0 ELSE Head(s) + SumSeq(Tail(s))

Range(s) == {s[k] : k \in 1..Len(s)}

(***************************************************************************)
(* base.SparseIdSet: DenseIds map[int]int, SparseIds []int                 *)
(***************************************************************************)
NewSparseIdSet == [DenseIds |-> <<>>, SparseIds |-> <<>>]

IdSetLen(set) == Len(set.SparseIds)

Add(set, sparseId) ==
    IF sparseId \in DOMAIN set.DenseIds
    THEN set
    ELSE [DenseIds |-> [s \in DOMAIN set.DenseIds \cup {sparseId} |->
                            IF s = sparseId THEN Len(set.SparseIds)
                                            ELSE set.DenseIds[s]],
          SparseIds |-> Append(set.SparseIds, sparseId)]

\* a lookup of an unregistered id yields the zero value
ToDenseId(set, sparseId) ==
    IF sparseId \in DOMAIN set.DenseIds THEN set.DenseIds[sparseId] ELSE 0

ToSparseId(set, denseId) == set.SparseIds[denseId + 1]

(***************************************************************************)
(* base.SparseVector and the matrix of them                                *)
(***************************************************************************)
NewSparseVector == [Indices |-> <<>>, Values |-> <<>>]

VecAdd(vec, index, value) ==
    [Indices |-> Append(vec.Indices, index), Values |-> Append(vec.Values, value)]

NewDenseSparseMatrix(row) == [k \in 1..row |-> NewSparseVector]

\* what a call yields: a value, or a run-time panic (index out of range)
Panic == [ok |-> FALSE, val |-> "panic"]
Ok(v) == [ok |-> TRUE, val |-> v]

(***************************************************************************)
(* Table                                                                   *)
(***************************************************************************)
NewDataTable(us, is, rs) ==
    [k \in 1..Len(us) |-> [user |-> us[k], item |-> is[k], rating |-> rs[k]]]

TableLen == Len(Table)

Get(k) == <<Table[k + 1].user, Table[k + 1].item, Table[k + 1].rating>>

TableGet(k) == IF k \in 0..(TableLen - 1) THEN Ok(Get(k)) ELSE Panic

\* the mean as the fraction sum / count (0 / 0 for the empty table)
Mean(t) == <<SumSeq([k \in 1..Len(t) |-> t[k].rating]), Len(t)>>

(***************************************************************************)
(* DataSet queries                                                         *)
(***************************************************************************)
UserCount == IdSetLen(UserIdSet)

ItemCount == IdSetLen(ItemIdSet)

GetDense(k) ==
    IF k \in 0..(TableLen - 1) /\ k < Len(DenseUserIds) /\ k < Len(DenseItemIds)
    THEN Ok(<<DenseUserIds[k + 1], DenseItemIds[k + 1], Get(k)[3]>>)
    ELSE Panic

MapPut(m, key, value) ==
    [x \in DOMAIN m \cup {key} |-> IF x = key THEN value ELSE m[x]]

\* a variant that keeps the first value it sees for a key
RECURSIVE RatingsSetFrom_FirstWins(_, _, _)
RatingsSetFrom_FirstWins(vec, k, set) ==
    IF k > Len(vec.Indices) THEN set
    ELSE LET itemId == ToSparseId(ItemIdSet, vec.Indices[k]) IN
         RatingsSetFrom_FirstWins(vec, k + 1,
            IF itemId \in DOMAIN set THEN set ELSE MapPut(set, itemId, vec.Values[k]))

\* the ForEach callback of GetUserRatingsSet applied to pairs k..Len of vec
RECURSIVE RatingsSetFrom(_, _, _)
RatingsSetFrom(vec, k, set) ==
    IF k > Len(vec.Indices) THEN set
    ELSE RatingsSetFrom(vec, k + 1,
            MapPut(set, ToSparseId(ItemIdSet, vec.Indices[k]), vec.Values[k]))

GetUserRatingsSet(userId) ==
    LET denseUserId == ToDenseId(UserIdSet, userId) IN
    IF denseUserId \notin 0..(Len(DenseUserRatings) - 1) THEN Panic
    ELSE LET vec == DenseUserRatings[denseUserId + 1] IN
         IF \E k \in 1..Len(vec.Indices) :
                vec.Indices[k] \notin 0..(IdSetLen(ItemIdSet) - 1)
         THEN Panic
         ELSE Ok(RatingsSetFrom(vec, 1, <<>>))

(***************************************************************************)
(* NewDataSet                                                              *)
(***************************************************************************)
NoRet == [op |-> "none", arg |-> 0, ok |-> TRUE, val |-> 0]

Init ==
    /\ Table \in Tables
    /\ GlobalMean = Mean(Table)
    /\ DenseItemIds = <<>>
    /\ DenseUserIds = <<>>
    /\ UserIdSet = NewSparseIdSet
    /\ ItemIdSet = NewSparseIdSet
    /\ DenseUserRatings = <<>>
    /\ DenseItemRatings = <<>>
    /\ pc = "pass1"
    /\ i = 0
    /\ ret = NoRet
    /\ lines = <<>>
    /\ argHasHeader = FALSE
    /\ hasHeader = FALSE
    /\ users = <<>>
    /\ items = <<>>
    /\ ratings = <<>>

\* a variant that registers the item id in the user id set
Pass1AddUser_ItemId(userId, itemId) == Add(UserIdSet, itemId)

\* set.UserIdSet.Add(userId)
Pass1AddUser(userId, itemId) == Add(UserIdSet, userId)

\* set.ItemIdSet.Add(itemId)
Pass1AddItem(userId, itemId) == Add(ItemIdSet, itemId)

\* a variant that records the newest dense id instead of looking the user up
Pass1DenseUserIds_Newest(userId) ==
    Append(DenseUserIds, IdSetLen(UserIdSet') - 1)

\* set.DenseUserIds = append(set.DenseUserIds, set.UserIdSet.ToDenseId(userId))
Pass1DenseUserIds(userId) ==
    Append(DenseUserIds, ToDenseId(UserIdSet', userId))

\* set.DenseItemIds = append(set.DenseItemIds, set.ItemIdSet.ToDenseId(itemId))
Pass1DenseItemIds(itemId) ==
    Append(DenseItemIds, ToDenseId(ItemIdSet', itemId))

\* first ForEach callback, on record i
Pass1Callback ==
    /\ pc = "pass1"
    /\ i < TableLen
    /\ LET userId == Table[i + 1].user
           itemId == Table[i + 1].item
       IN /\ UserIdSet' = Pass1AddUser(userId, itemId)
          /\ ItemIdSet' = Pass1AddItem(userId, itemId)
          /\ DenseUserIds' = Pass1DenseUserIds(userId)
          /\ DenseItemIds' = Pass1DenseItemIds(itemId)
    /\ i' = i + 1
    /\ UNCHANGED <<Table, GlobalMean, DenseUserRatings, DenseItemRatings, pc, ret>>
    /\ UNCHANGED csvVars

\* a variant that sizes the user matrix by the number of records
AllocateUserRatings_ByRecords == NewDenseSparseMatrix(TableLen)

\* base.NewDenseSparseMatrix(set.UserCount())
AllocateUserRatings == NewDenseSparseMatrix(UserCount)

\* base.NewDenseSparseMatrix(set.ItemCount())
AllocateItemRatings == NewDenseSparseMatrix(ItemCount)

\* the two NewDenseSparseMatrix calls between the passes
Allocate ==
    /\ pc = "pass1"
    /\ i = TableLen
    /\ DenseUserRatings' = AllocateUserRatings
    /\ DenseItemRatings' = AllocateItemRatings
    /\ pc' = "pass2"
    /\ i' = 0
    /\ UNCHANGED <<Table, GlobalMean, DenseUserIds, DenseItemIds, UserIdSet, ItemIdSet, ret>>
    /\ UNCHANGED csvVars

\* a variant that overwrites the value of an index the vector already holds
Pass2UserRatings_Merge(userDenseId, itemDenseId, rating) ==
    LET vec == DenseUserRatings[userDenseId + 1] IN
    IF \E k \in 1..Len(vec.Indices) : vec.Indices[k] = itemDenseId
    THEN [DenseUserRatings EXCEPT ![userDenseId + 1] =
            [Indices |-> vec.Indices,
             Values |-> [k \in 1..Len(vec.Values) |->
                            IF vec.Indices[k] = itemDenseId THEN rating ELSE vec.Values[k]]]]
    ELSE [DenseUserRatings EXCEPT ![userDenseId + 1] = VecAdd(@, itemDenseId, rating)]

\* set.DenseUserRatings[userDenseId].Add(itemDenseId, rating)
Pass2UserRatings(userDenseId, itemDenseId, rating) ==
    [DenseUserRatings EXCEPT ![userDenseId + 1] = VecAdd(@, itemDenseId, rating)]

\* a variant that files the rating under the item's own dense id
Pass2ItemRatings_ItemIndex(userDenseId, itemDenseId, rating) ==
    [DenseItemRatings EXCEPT ![itemDenseId + 1] = VecAdd(@, itemDenseId, rating)]

\* set.DenseItemRatings[itemDenseId].Add(userDenseId, rating)
Pass2ItemRatings(userDenseId, itemDenseId, rating) ==
    [DenseItemRatings EXCEPT ![itemDenseId + 1] = VecAdd(@, userDenseId, rating)]

\* second ForEach callback, on record i
Pass2Callback ==
    /\ pc = "pass2"
    /\ i < TableLen
    /\ LET userId == Table[i + 1].user
           itemId == Table[i + 1].item
           rating == Table[i + 1].rating
           userDenseId == ToDenseId(UserIdSet, userId)
           itemDenseId == ToDenseId(ItemIdSet, itemId)
       IN IF /\ userDenseId \in 0..(Len(DenseUserRatings) - 1)
             /\ itemDenseId \in 0..(Len(DenseItemRatings) - 1)
          THEN /\ DenseUserRatings' = Pass2UserRatings(userDenseId, itemDenseId, rating)
               /\ DenseItemRatings' = Pass2ItemRatings(userDenseId, itemDenseId, rating)
               /\ i' = i + 1
               /\ pc' = pc
          ELSE /\ pc' = "panic"
               /\ UNCHANGED <<DenseUserRatings, DenseItemRatings, i>>
    /\ UNCHANGED <<Table, GlobalMean, DenseUserIds, DenseItemIds, UserIdSet, ItemIdSet, ret>>
    /\ UNCHANGED csvVars

Return ==
    /\ pc = "pass2"
    /\ i = TableLen
    /\ pc' = "ready"
    /\ UNCHANGED <<i, ret>>
    /\ UNCHANGED dsVars
    /\ UNCHANGED csvVars

(***************************************************************************)
(* Queries on the built DataSet                                            *)
(***************************************************************************)
Answer(op, arg, r) ==
    /\ ret' = [op |-> op, arg |-> arg, ok |-> r.ok, val |-> r.val]
    /\ pc' = IF r.ok THEN "ready" ELSE "panic"

CallGet ==
    /\ pc = "ready"
    /\ \E k \in 0..TableLen : Answer("Get", k, TableGet(k))
    /\ UNCHANGED i
    /\ UNCHANGED dsVars
    /\ UNCHANGED csvVars

CallGetDense ==
    /\ pc = "ready"
    /\ \E k \in 0..TableLen : Answer("GetDense", k, GetDense(k))
    /\ UNCHANGED i
    /\ UNCHANGED dsVars
    /\ UNCHANGED csvVars

CallUserCount ==
    /\ pc = "ready"
    /\ Answer("UserCount", 0, Ok(UserCount))
    /\ UNCHANGED i
    /\ UNCHANGED dsVars
    /\ UNCHANGED csvVars

CallItemCount ==
    /\ pc = "ready"
    /\ Answer("ItemCount", 0, Ok(ItemCount))
    /\ UNCHANGED i
    /\ UNCHANGED dsVars
    /\ UNCHANGED csvVars

\* a variant whose lookup registers the id it is asked for
CallGetUserRatingsSet_Registers ==
    /\ pc = "ready"
    /\ \E userId \in QueryIds :
          /\ Answer("GetUserRatingsSet", userId, GetUserRatingsSet(userId))
          /\ UserIdSet' = Add(UserIdSet, userId)
    /\ UNCHANGED i
    /\ UNCHANGED <<Table, GlobalMean, DenseUserIds, DenseItemIds, DenseUserRatings,
                   DenseItemRatings, ItemIdSet>>
    /\ UNCHANGED csvVars

CallGetUserRatingsSet ==
    /\ pc = "ready"
    /\ \E userId \in QueryIds :
          Answer("GetUserRatingsSet", userId, GetUserRatingsSet(userId))
    /\ UNCHANGED i
    /\ UNCHANGED dsVars
    /\ UNCHANGED csvVars

Next ==
    \/ Pass1Callback
    \/ Allocate
    \/ Pass2Callback
    \/ Return
    \/ CallGet
    \/ CallGetDense
    \/ CallUserCount
    \/ CallItemCount
    \/ CallGetUserRatingsSet

Spec == Init /\ [][Next]_vars

(***************************************************************************)
(* LoadDataFromCSV.  A line is a sequence of one-character strings.        *)
(***************************************************************************)
\* strings.Split(s, sep) for a one-character sep
RECURSIVE Split(_, _)
Split(s, sep) ==
    IF \A k \in 1..Len(s) : s[k] # sep
    THEN <<s>>
    ELSE LET k == CHOOSE k \in 1..Len(s) :
                     s[k] = sep /\ \A j \in 1..(k - 1) : s[j] # sep
         IN <<SubSeq(s, 1, k - 1)>> \o Split(SubSeq(s, k + 1, Len(s)), sep)

Digits == <<"0", "1", "2", "3", "4", "5", "6", "7", "8", "9">>

DigitVal(c) == (CHOOSE k \in 1..Len(Digits) : Digits[k] = c) - 1

RECURSIVE DecimalValue(_, _)
DecimalValue(s, acc) ==
    IF s = <<>> THEN acc ELSE DecimalValue(Tail(s), 10 * acc + DigitVal(Head(s)))

\* strconv.Atoi with the error dropped: 0 unless s is a non-empty run of digits
Atoi(s) ==
    IF s # <<>> /\ \A k \in 1..Len(s) : s[k] \in Range(Digits)
    THEN DecimalValue(s, 0)
    ELSE 0

\* strconv.ParseFloat(s, 32) with the error dropped, on the strings of Chars
ParseFloat(s) ==
    IF s # <<>> /\ \A k \in 1..Len(s) : s[k] \in Range(Digits)
    THEN DecimalValue(s, 0)
    ELSE 0

InitCSV ==
    /\ lines \in Files
    /\ argHasHeader \in BOOLEAN
    /\ hasHeader = argHasHeader
    /\ users = <<>>
    /\ items = <<>>
    /\ ratings = <<>>
    /\ pc = "scan"
    /\ i = 0
    /\ ret = NoRet
    /\ Table = <<>>
    /\ GlobalMean = <<0, 0>>
    /\ DenseItemIds = <<>>
    /\ DenseUserIds = <<>>
    /\ UserIdSet = NewSparseIdSet
    /\ ItemIdSet = NewSparseIdSet
    /\ DenseUserRatings = <<>>
    /\ DenseItemRatings = <<>>

\* one iteration of the scanner loop, on line i
ScanLine ==
    /\ pc = "scan"
    /\ i < Len(lines)
    /\ LET line == lines[i + 1]
           fields == Split(line, Sep)
       IN IF hasHeader
          THEN /\ hasHeader' = FALSE
               /\ i' = i + 1
               /\ UNCHANGED <<users, items, ratings, pc>>
          ELSE IF Len(fields) < 2
          THEN /\ i' = i + 1
               /\ UNCHANGED <<hasHeader, users, items, ratings, pc>>
          ELSE IF Len(fields) < 3
          THEN \* fields[2]: index out of range
               /\ pc' = "csvpanic"
               /\ UNCHANGED <<hasHeader, users, items, ratings, i>>
          ELSE /\ users' = Append(users, Atoi(fields[1]))
               /\ items' = Append(items, Atoi(fields[2]))
               /\ ratings' = Append(ratings, ParseFloat(fields[3]))
               /\ i' = i + 1
               /\ UNCHANGED <<hasHeader, pc>>
    /\ UNCHANGED <<lines, argHasHeader, ret>>
    /\ UNCHANGED dsVars

\* end of file: NewDataSet(NewDataTable(users, items, ratings)) up to its first pass
LoadReturn ==
    /\ pc = "scan"
    /\ i = Len(lines)
    /\ Table' = NewDataTable(users, items, ratings)
    /\ GlobalMean' = Mean(Table')
    /\ DenseItemIds' = <<>>
    /\ DenseUserIds' = <<>>
    /\ UserIdSet' = NewSparseIdSet
    /\ ItemIdSet' = NewSparseIdSet
    /\ pc' = "pass1"
    /\ i' = 0
    /\ UNCHANGED <<DenseUserRatings, DenseItemRatings, ret>>
    /\ UNCHANGED csvVars

NextCSV ==
    \/ ScanLine
    \/ LoadReturn
    \/ Pass1Callback
    \/ Allocate
    \/ Pass2Callback
    \/ Return

SpecCSV == InitCSV /\ [][NextCSV]_vars

(***************************************************************************)
(* Properties                                                              *)
(***************************************************************************)
\* NewDataSet has returned (a later query may have panicked)
Built == pc = "ready" \/ (pc = "panic" /\ ret.op # "none")

TableUsers == {Table[k].user : k \in 1..TableLen}
TableItems == {Table[k].item : k \in 1..TableLen}
TableSum == SumSeq([k \in 1..TableLen |-> Table[k].rating])

MatrixSum(mat) == SumSeq([k \in 1..Len(mat) |-> SumSeq(mat[k].Values)])
MatrixPairs(mat) == SumSeq([k \in 1..Len(mat) |-> Len(mat[k].Indices)])

\* how often the pair (index, value) occurs in vec
PairCount(vec, index, value) ==
    Cardinality({k \in 1..Len(vec.Indices) :
                    vec.Indices[k] = index /\ vec.Values[k] = value})

\* how often the record (u, v, r) occurs in the raw table
RecordCount(u, v, r) ==
    Cardinality({k \in 1..TableLen :
                    Table[k].user = u /\ Table[k].item = v /\ Table[k].rating = r})

HasRepeatedPair ==
    \E j, k \in 1..TableLen :
        j < k /\ Table[j].user = Table[k].user /\ Table[j].item = Table[k].item

\* C1: after NewDataSet the ratings of the user vectors, of the item vectors
\* and of the raw table have the same sum, each structure holds as many pairs
\* as the table has records, and every record occurs in each structure exactly
\* as often as in the table.
C1_Conservation ==
    Built =>
        /\ MatrixSum(DenseUserRatings) = TableSum
        /\ MatrixSum(DenseItemRatings) = TableSum
        /\ MatrixPairs(DenseUserRatings) = TableLen
        /\ MatrixPairs(DenseItemRatings) = TableLen
        /\ \A k \in 1..Len(DenseUserRatings) :
              Len(DenseUserRatings[k].Indices) = Len(DenseUserRatings[k].Values)
        /\ \A k \in 1..Len(DenseItemRatings) :
              Len(DenseItemRatings[k].Indices) = Len(DenseItemRatings[k].Values)
        /\ \A u \in TableUsers, v \in TableItems, r \in Ratings :
              LET ud == ToDenseId(UserIdSet, u)
                  vd == ToDenseId(ItemIdSet, v)
              IN /\ PairCount(DenseUserRatings[ud + 1], vd, r) = RecordCount(u, v, r)
                 /\ PairCount(DenseItemRatings[vd + 1], ud, r) = RecordCount(u, v, r)

C1_Witness ==
    /\ pc = "ready"
    /\ TableLen = MaxRecords
    /\ HasRepeatedPair
    /\ Cardinality(TableUsers) > 1
    /\ MatrixSum(DenseUserRatings) = TableSum
    /\ TableSum > TableLen

\* C2: after NewDataSet, for every record position k with
\* (u, v, r) = GetDense(k), r is the rating of Get(k), the user vector u holds
\* the pair (v, r) and the item vector v holds the pair (u, r).
C2_PositionalAlignment ==
    Built =>
        \A k \in 0..(TableLen - 1) :
            LET d == GetDense(k) IN
            /\ d.ok
            /\ d.val[3] = Get(k)[3]
            /\ d.val[1] \in 0..(Len(DenseUserRatings) - 1)
            /\ d.val[2] \in 0..(Len(DenseItemRatings) - 1)
            /\ PairCount(DenseUserRatings[d.val[1] + 1], d.val[2], d.val[3]) > 0
            /\ PairCount(DenseItemRatings[d.val[2] + 1], d.val[1], d.val[3]) > 0

C2_Witness ==
    /\ pc = "ready"
    /\ ret.op = "GetDense"
    /\ ret.ok
    /\ ret.arg = 2
    /\ ret.val[1] = 1
    /\ ret.val[2] = 0
    /\ PairCount(DenseItemRatings[1], 1, ret.val[3]) > 0

\* C3: after NewDataSet, DenseUserRatings has UserCount() vectors, which is
\* the number of distinct user ids of the table, likewise for items, and every
\* stored dense id indexes its array.
C3_CountConsistency ==
    Built =>
        /\ Len(DenseUserRatings) = UserCount
        /\ UserCount = Cardinality(TableUsers)
        /\ Len(DenseItemRatings) = ItemCount
        /\ ItemCount = Cardinality(TableItems)
        /\ \A k \in 1..Len(DenseUserIds) :
              DenseUserIds[k] \in 0..(Len(DenseUserRatings) - 1)
        /\ \A k \in 1..Len(DenseItemIds) :
              DenseItemIds[k] \in 0..(Len(DenseItemRatings) - 1)

C3_Witness ==
    /\ pc = "ready"
    /\ ret.op = "UserCount"
    /\ ret.val = 2
    /\ TableLen = 3
    /\ Len(DenseUserRatings) = 2
    /\ Len(DenseItemRatings) = 1

\* the number of distinct ids that occur among the first n entries of ids
DistinctBefore(ids, n) == Cardinality({ids[j] : j \in 1..n})

FirstOccurrence(ids, k) == CHOOSE j \in 1..k : ids[j] = ids[k] /\ \A h \in 1..(j - 1) : ids[h] # ids[k]

TableUserSeq == [k \in 1..TableLen |-> Table[k].user]
TableItemSeq == [k \in 1..TableLen |-> Table[k].item]

AllDistinct ==
    /\ Cardinality(TableUsers) = TableLen
    /\ Cardinality(TableItems) = TableLen

\* C4: after NewDataSet, DenseUserIds and DenseItemIds have Len() entries,
\* entry k being the number of distinct ids that occur before the first
\* occurrence of record k's id; when all user ids and all item ids are
\* pairwise distinct GetDense(k) is (k, k, rating k).
C4_FirstSeenOrder ==
    Built =>
        /\ Len(DenseUserIds) = TableLen
        /\ Len(DenseItemIds) = TableLen
        /\ \A k \in 1..TableLen :
              /\ DenseUserIds[k] =
                    DistinctBefore(TableUserSeq, FirstOccurrence(TableUserSeq, k) - 1)
              /\ DenseItemIds[k] =
                    DistinctBefore(TableItemSeq, FirstOccurrence(TableItemSeq, k) - 1)
        /\ AllDistinct =>
              \A k \in 0..(TableLen - 1) :
                  GetDense(k) = Ok(<<k, k, Table[k + 1].rating>>)

C4_Witness ==
    /\ pc = "ready"
    /\ TableLen = 3
    /\ DenseUserIds = <<0, 1, 0>>
    /\ DenseItemIds = <<0, 0, 1>>
    /\ ret.op = "GetDense"

\* C5: after NewDataSet both identifier sets are bijections between the ids
\* of the table and [0, count): ToDenseId(ToSparseId(d)) = d for every dense
\* id, ToSparseId(ToDenseId(s)) = s for every id of the table, no sparse id is
\* stored twice, and a repeated id keeps the dense id it was first given.
C5_Bijection ==
    Built =>
        /\ \A d \in 0..(UserCount - 1) :
              ToDenseId(UserIdSet, ToSparseId(UserIdSet, d)) = d
        /\ \A d \in 0..(ItemCount - 1) :
              ToDenseId(ItemIdSet, ToSparseId(ItemIdSet, d)) = d
        /\ \A s \in TableUsers :
              /\ s \in DOMAIN UserIdSet.DenseIds
              /\ ToDenseId(UserIdSet, s) \in 0..(UserCount - 1)
              /\ ToSparseId(UserIdSet, ToDenseId(UserIdSet, s)) = s
        /\ \A s \in TableItems :
              /\ s \in DOMAIN ItemIdSet.DenseIds
              /\ ToDenseId(ItemIdSet, s) \in 0..(ItemCount - 1)
              /\ ToSparseId(ItemIdSet, ToDenseId(ItemIdSet, s)) = s
        /\ Cardinality(Range(UserIdSet.SparseIds)) = Len(UserIdSet.SparseIds)
        /\ Cardinality(Range(ItemIdSet.SparseIds)) = Len(ItemIdSet.SparseIds)
        /\ DOMAIN UserIdSet.DenseIds = TableUsers
        /\ DOMAIN ItemIdSet.DenseIds = TableItems
        /\ \A k \in 1..TableLen :
              /\ DenseUserIds[k] = ToDenseId(UserIdSet, Table[k].user)
              /\ DenseItemIds[k] = ToDenseId(ItemIdSet, Table[k].item)

C5_Witness ==
    /\ pc = "ready"
    /\ TableLen = 3
    /\ Table[1].user = Table[3].user
    /\ Table[1].user # Table[2].user
    /\ Table[1].item = Table[2].item
    /\ UserIdSet.SparseIds = <<Table[1].user, Table[2].user>>
    /\ Len(ItemIdSet.SparseIds) = 2

\* the position of the last record (u, v, .) of the table
LastRecord(u, v) ==
    CHOOSE k \in 1..TableLen :
        /\ Table[k].user = u
        /\ Table[k].item = v
        /\ \A j \in (k + 1)..TableLen : ~(Table[j].user = u /\ Table[j].item = v)

\* C6: GetUserRatingsSet(s) for a user id s of the table returns a map whose
\* keys are the sparse item ids s rated and whose value for an item is the
\* rating of the last record (s, item, .); the user's vector still holds one
\* pair per record of s.
C6_LastRatingWins ==
    (Built /\ ret.op = "GetUserRatingsSet" /\ ret.arg \in TableUsers) =>
        /\ ret.ok
        /\ DOMAIN ret.val = {Table[k].item : k \in {j \in 1..TableLen : Table[j].user = ret.arg}}
        /\ \A v \in DOMAIN ret.val : ret.val[v] = Table[LastRecord(ret.arg, v)].rating
        /\ Len(DenseUserRatings[ToDenseId(UserIdSet, ret.arg) + 1].Indices) =
              Cardinality({k \in 1..TableLen : Table[k].user = ret.arg})

C6_Witness ==
    /\ pc = "ready"
    /\ ret.op = "GetUserRatingsSet"
    /\ ret.ok
    /\ \E j, k \in 1..TableLen :
          /\ j < k
          /\ Table[j].user = ret.arg
          /\ Table[k].user = ret.arg
          /\ Table[j].item = Table[k].item
          /\ Table[j].rating # Table[k].rating
          /\ Table[k].rating = ret.val[Table[k].item]
          /\ Len(DenseUserRatings[ToDenseId(UserIdSet, ret.arg) + 1].Indices) >= 2

\* C7: GetUserRatingsSet with a user id that never occurred in the raw table
\* fails; it never returns a map.
C7_UnknownUserFails ==
    (ret.op = "GetUserRatingsSet" /\ ret.arg \notin TableUsers) => ~ret.ok

\* C8: a query leaves the whole DataSet unchanged: the raw table, GlobalMean,
\* the dense id arrays, every vector of both matrices and both id sets.
C8_QueriesReadOnly ==
    [][pc = "ready" => UNCHANGED dsVars]_vars

C8_Witness ==
    /\ pc = "ready"
    /\ ret.op = "GetUserRatingsSet"
    /\ ret.arg \notin TableUsers
    /\ TableLen = MaxRecords
    /\ UserCount > 1

(***************************************************************************)
(* What LoadDataFromCSV is to produce                                      *)
(***************************************************************************)
RECURSIVE ExpectedRecords(_)
ExpectedRecords(ls) ==
    IF ls = <<>> THEN <<>>
    ELSE LET fields == Split(Head(ls), Sep) IN
         IF Len(fields) < 2
         THEN ExpectedRecords(Tail(ls))
         ELSE <<[user |-> Atoi(fields[1]), item |-> Atoi(fields[2]),
                 rating |-> ParseFloat(fields[3])]>> \o ExpectedRecords(Tail(ls))

ExpectedTable ==
    IF argHasHeader /\ lines # <<>> THEN ExpectedRecords(Tail(lines))
                                     ELSE ExpectedRecords(lines)

\* C10: LoadDataFromCSV never aborts, and the table it hands to NewDataSet
\* holds one record per line that is neither the header nor split into fewer
\* than 2 fields, in file order.
C10_LoadCompletes ==
    /\ pc # "csvpanic"
    /\ pc \notin {"scan", "csvpanic"} => Table = ExpectedTable

====
